---- MODULE Spec2Model ----
(***************************************************************************)
(* A model of the Kokoro TTS pipeline of expo-kokoro-onnx: the KokoroOnnx  *)
(* class (tokenize, generateAudio, _floatArrayToWav, loadModel,            *)
(* downloadVoice) as a state machine, with the handlers of the App         *)
(* component in its single-model (App.tsx) and multi-model (part_002)      *)
(* versions.                                                               *)
(*                                                                         *)
(* Specifications:                                                         *)
(*   SpecWav      _floatArrayToWav applied to one drawn waveform           *)
(*   SpecTok      tokenize applied to one drawn text and to its lower case *)
(*   Spec         generateAudio requests, one at a time, with loadModel    *)
(*   SpecWavPure  two calls of _floatArrayToWav with the same arguments,   *)
(*                with other calls on the instance in between              *)
(*   SpecConc     generateAudio calls that overlap                         *)
(*   SpecRetry    generateAudio requests for one voice, one after another  *)
(*   SpecVoice    the App's Download Voice button and checkDownloadedVoices *)
(*                next to a generateAudio request                          *)
(*   SpecSpeed    the speed buttons of both versions of the component      *)
(*   SpecApp      the handlers of App.tsx over loadModel and generateAudio *)
(*   SpecAppLive  the same handlers without their alerts, every awaited    *)
(*                operation settling                                       *)
(*   SpecMulti    the model handlers of part_002: check, download, delete, *)
(*                initialize and the model selector                        *)
(***************************************************************************)
EXTENDS Integers, Sequences, FiniteSets, TLC

VARIABLES
    \* the KokoroOnnx instance (constructor, part_000:33-38)
    session, isModelLoaded, voiceCache, isOnnxAvailable,
    \* the platform: whether InferenceSession.create is a function, whether
    \* the model file is in the cache directory, sessions created so far
    onnxRuntimeOk, modelFileExists, sessionsCreated,
    \* the loadModel call in flight: its position and its last return value
    loadPc, loadResult,
    \* _floatArrayToWav: the arguments drawn, the position, the buffer the
    \* latest call returned, the buffer the first call returned
    floatArray, sampleRate, wavPc, wavBuffer, wavFirst,
    \* tokenize: the text drawn, which calls have returned, the tokens
    \* returned for the text and for its lower case
    tokText, tokPc, tokTokens, tokLowerTokens,
    \* the generateAudio calls: per call its position, arguments and locals
    gen,
    \* generateAudio calls started so far
    requests,
    \* the file system and the clock: the voice files in documentDirectory,
    \* the latest value Date.now() returned, the temporary WAV files in
    \* cacheDirectory, the Audio.Sound objects created, per voice the
    \* network downloads started
    voiceFiles, now, tempFiles, sounds, fetches,
    \* the App component (App.tsx): what its last call of
    \* KokoroOnnx.downloadVoice was given and how it ended, and its state
    \* downloadedVoices
    lastDownload, downloadedVoices,
    \* the state of the App component (useState, App.tsx:15-31 and
    \* part_002:14-41), one field per state variable
    ui,
    \* per asynchronous handler of the component, the await it is suspended at
    handlers,
    \* the title of the alert shown last (Alert.alert)
    alert,
    \* the multi-model component (part_002): the model files on the device,
    \* and the calls under way of the functions it awaits
    modelFiles, calls

instVars == <<session, isModelLoaded, voiceCache, isOnnxAvailable>>
envVars == <<onnxRuntimeOk, modelFileExists, sessionsCreated>>
loadVars == <<loadPc, loadResult>>
wavVars == <<floatArray, sampleRate, wavPc, wavBuffer, wavFirst>>
tokVars == <<tokText, tokPc, tokTokens, tokLowerTokens>>
genVars == <<gen, requests>>
fsVars == <<voiceFiles, now, tempFiles, sounds, fetches>>
multiVars == <<modelFiles, calls>>
appVars == <<lastDownload, downloadedVoices, ui, handlers, alert, multiVars>>
vars == <<instVars, envVars, loadVars, wavVars, tokVars, genVars, fsVars, appVars>>

----------------------------------------------------------------------------
\* Bounds of the model

\* longest waveform drawn exhaustively for _floatArrayToWav
MaxWavLen == 3
\* finite samples are the halves -MaxSample2/2 .. MaxSample2/2
MaxSample2 == 4
\* longest waveform drawn for the repeated call of SpecWavPure
MaxPureLen == 1
\* longest text drawn exhaustively for tokenize
MaxTextLen == 3
\* generateAudio call slots
MaxCalls == 2
\* longest run of one mapped character in a text given to generateAudio
MaxRepeat == 510
\* Date.now() returns at most this
MaxClock == 1
\* generateAudio is called at most this many times in Spec
MaxRequests == 1
\* Audio.Sound objects created at most
MaxSounds == 2
\* InferenceSession.create succeeds at most this many times
MaxSessions == 1
\* downloadAsync rejects at most this many times for one voice
MaxFetchErrors == 1
\* generateAudio is called at most this many times in SpecRetry
MaxRetryRequests == 2
MaxRoundErr == 1
\* loadModel calls under way, deleteModel calls under way, entries of
\* downloadedModels
MaxLoads == 2
MaxDeletes == 1
MaxListed == 2

----------------------------------------------------------------------------
\* Program constants

SAMPLE_RATE == 24000
STYLE_DIM == 256
MAX_PHONEME_LENGTH == 510
headerLength == 44

----------------------------------------------------------------------------
\* Numbers

Min(a, b) == IF a < b THEN a ELSE b
Max(a, b) == IF a > b THEN a ELSE b

\* A float is held exactly: kind "num" with twice = 2 * value (so 0.5 is
\* twice = 1), or one of the non-finite values.
Num(t) == [kind |-> "num", twice |-> t]
NaN == [kind |-> "nan", twice |-> 0]
PosInf == [kind |-> "posinf", twice |-> 0]
NegInf == [kind |-> "neginf", twice |-> 0]

Floats == {Num(t) : t \in (0 - MaxSample2)..MaxSample2} \cup {NaN, PosInf, NegInf}

\* the end-to-end waveform [0.5, -1.0, 1.0, 0.0]
ScenarioWaveform == <<Num(1), Num(-2), Num(2), Num(0)>>

\* all sequences over S of length at most n
SeqsUpTo(S, n) == UNION {[1..k -> S] : k \in 0..n}

\* Storing a number into an Int16Array element keeps its low 16 bits, signed.
ToInt16(v) == ((v + 32768) % 65536) - 32768

\* Math.floor(f * 32767) for a finite f.
FloorTimes32767(f) == (f.twice * 32767) \div 2

\* Math.round in place of Math.floor
PcmRound(f) ==
    CASE f.kind = "num" ->
           ToInt16(Max(-32768, Min(32767, (f.twice * 32767 + 1) \div 2)))
      [] f.kind = "posinf" -> 32767
      [] f.kind = "neginf" -> -32768
      [] OTHER -> 0

\* the conventional conversion: negative samples scaled by 32768
PcmSymmetric(f) ==
    CASE f.kind = "num" ->
           ToInt16(Max(-32768, Min(32767,
               IF f.twice < 0 THEN (f.twice * 32768) \div 2 ELSE FloorTimes32767(f))))
      [] f.kind = "posinf" -> 32767
      [] f.kind = "neginf" -> -32768
      [] OTHER -> 0

\* part_000:332, the value stored into int16Array[i]:
\*   Math.max(-32768, Math.min(32767, Math.floor(floatArray[i] * 32767)))
\* NaN goes through floor, min and max as NaN and is stored as 0.
PcmSample(f) ==
    CASE f.kind = "num" ->
           ToInt16(Max(-32768, Min(32767, FloorTimes32767(f))))
      [] f.kind = "posinf" -> ToInt16(Max(-32768, 32767))
      [] f.kind = "neginf" -> ToInt16(-32768)
      [] OTHER -> 0

----------------------------------------------------------------------------
\* Bytes: an ArrayBuffer is a sequence of bytes, offset o at index o + 1.

CharCode ==
    ("R" :> 82) @@ ("I" :> 73) @@ ("F" :> 70) @@ ("W" :> 87) @@ ("A" :> 65)
    @@ ("V" :> 86) @@ ("E" :> 69) @@ ("f" :> 102) @@ ("m" :> 109)
    @@ ("t" :> 116) @@ (" " :> 32) @@ ("d" :> 100) @@ ("a" :> 97)

\* DataView.setUint8(o, v)
Uint8(v) == <<v % 256>>
\* DataView.setUint16(o, v, true) and setInt16(o, v, true): low two bytes of
\* v, least significant first (two's complement for a negative v).
Uint16LE(v) == <<v % 256, (v \div 256) % 256>>
Int16LE(v) == Uint16LE(v)
\* setUint32 without the littleEndian flag
Uint32BE(v) ==
    <<(v \div 16777216) % 256, (v \div 65536) % 256, (v \div 256) % 256, v % 256>>
\* DataView.setUint32(o, v, true): low four bytes of v, least significant first.
Uint32LE(v) ==
    <<v % 256, (v \div 256) % 256, (v \div 65536) % 256, (v \div 16777216) % 256>>

\* new ArrayBuffer(n): n zero bytes
ArrayBuffer(n) == [i \in 1..n |-> 0]

\* one DataView set call: bytes written at offset off
SetBytes(buf, off, bytes) ==
    SubSeq(buf, 1, off) \o bytes \o SubSeq(buf, off + Len(bytes) + 1, Len(buf))

\* the set calls of a list <<offset, bytes>>, in order
RECURSIVE ApplyWrites(_, _)
ApplyWrites(buf, writes) ==
    IF writes = <<>> THEN buf
    ELSE ApplyWrites(SetBytes(buf, Head(writes)[1], Head(writes)[2]), Tail(writes))

\* part_000:341-391, the header writes in source order
HeaderWrites(dataLength, rate) ==
    << <<0, Uint8(CharCode["R"])>>, <<1, Uint8(CharCode["I"])>>,
       <<2, Uint8(CharCode["F"])>>, <<3, Uint8(CharCode["F"])>>,
       <<4, Uint32LE(36 + dataLength)>>,
       <<8, Uint8(CharCode["W"])>>, <<9, Uint8(CharCode["A"])>>,
       <<10, Uint8(CharCode["V"])>>, <<11, Uint8(CharCode["E"])>>,
       <<12, Uint8(CharCode["f"])>>, <<13, Uint8(CharCode["m"])>>,
       <<14, Uint8(CharCode["t"])>>, <<15, Uint8(CharCode[" "])>>,
       <<16, Uint32LE(16)>>,
       <<20, Uint16LE(1)>>,
       <<22, Uint16LE(1)>>,
       <<24, Uint32LE(rate)>>,
       <<28, Uint32LE(rate * 2)>>,
       <<32, Uint16LE(2)>>,
       <<34, Uint16LE(16)>>,
       <<36, Uint8(CharCode["d"])>>, <<37, Uint8(CharCode["a"])>>,
       <<38, Uint8(CharCode["t"])>>, <<39, Uint8(CharCode["a"])>>,
       <<40, Uint32LE(dataLength)>> >>

\* the sample index used as the byte offset
SampleWritesStride1(int16Array) ==
    [i \in 1..Len(int16Array) |->
        <<headerLength + (i - 1), Int16LE(int16Array[i])>>]

\* part_000:393-396, the sample writes
SampleWrites(int16Array) ==
    [i \in 1..Len(int16Array) |->
        <<headerLength + (i - 1) * 2, Int16LE(int16Array[i])>>]

\* the buffer of the previous call reused when it is large enough
WavReusedBuffer(samples, rate) ==
    LET numSamples == Len(samples)
        int16Array == [i \in 1..numSamples |-> PcmSample(samples[i])]
        dataLength == Len(int16Array) * 2
        buffer == IF Len(wavBuffer) >= headerLength + dataLength
                  THEN wavBuffer
                  ELSE ArrayBuffer(headerLength + dataLength)
    IN  ApplyWrites(buffer, HeaderWrites(dataLength, rate) \o SampleWrites(int16Array))

\* part_000:325-399
_floatArrayToWav(samples, rate) ==
    LET numSamples == Len(samples)
        int16Array == [i \in 1..numSamples |-> PcmSample(samples[i])]
        dataLength == Len(int16Array) * 2
        buffer == ArrayBuffer(headerLength + dataLength)
    IN  ApplyWrites(buffer, HeaderWrites(dataLength, rate) \o SampleWrites(int16Array))

----------------------------------------------------------------------------------------------------------------------------------------------
\* The instance after construction (part_000:33-38). voiceCache is a Map,
\* held as the set of its keys. A session handle is the number of the
\* InferenceSession.create call that returned it; null is 0.

NoSession == 0

InstInit ==
    /\ session = NoSession
    /\ isModelLoaded = FALSE
    /\ voiceCache = {}
    /\ isOnnxAvailable = TRUE

EnvInit ==
    /\ onnxRuntimeOk \in BOOLEAN
    /\ modelFileExists \in BOOLEAN
    /\ sessionsCreated = 0

\* a platform with the runtime and the model file in place
EnvReady ==
    /\ onnxRuntimeOk = TRUE
    /\ modelFileExists = TRUE
    /\ sessionsCreated = 0

LoadInit ==
    /\ loadPc = "idle"
    /\ loadResult = "none"

----------------------------------------------------------------------------
\* checkOnnxAvailability (part_000:44-65): the value it stores and returns
checkOnnxAvailability == onnxRuntimeOk

CheckOnnxAvailability ==
    /\ isOnnxAvailable' = checkOnnxAvailability
    /\ UNCHANGED <<session, isModelLoaded, voiceCache, envVars, loadVars, wavVars, tokVars, genVars, fsVars, appVars>>

\* loadModel (part_000:71-124), one action per await.
\* part_000:72-80: the availability check, then await getInfoAsync
LoadModelEnter ==
    /\ loadPc = "idle"
    /\ isOnnxAvailable' = checkOnnxAvailability
    /\ IF checkOnnxAvailability
       THEN loadPc' = "getInfo" /\ loadResult' = "none"
       ELSE loadPc' = "idle" /\ loadResult' = "false"

\* loadModel called with the caller standing still
LoadModelStart ==
    /\ LoadModelEnter
    /\ UNCHANGED <<session, isModelLoaded, voiceCache, envVars, wavVars, tokVars, genVars, fsVars, appVars>>

\* part_000:80-99: getInfoAsync resolves (or rejects: catch, return false)
LoadModelGotInfo ==
    /\ loadPc = "getInfo"
    /\ \E rejected \in BOOLEAN :
          IF rejected \/ ~modelFileExists
          THEN loadPc' = "idle" /\ loadResult' = "false"
          ELSE loadPc' = "create" /\ loadResult' = "none"
    /\ UNCHANGED <<instVars, envVars, wavVars, tokVars, genVars, fsVars, appVars>>

\* part_000:106-113, after this.session was assigned
LoadModelFinish(newSession) ==
    /\ session' = newSession
    /\ IF newSession = NoSession
       THEN isModelLoaded' = isModelLoaded /\ loadResult' = "false"
       ELSE isModelLoaded' = TRUE /\ loadResult' = "true"
    /\ loadPc' = "idle"

\* part_000:97-104: InferenceSession.create(MODEL_PATH, options) resolves with
\* a session or with nothing, or rejects and the fallback create is awaited
LoadModelCreated ==
    /\ loadPc = "create"
    /\ \/ /\ sessionsCreated < MaxSessions
          /\ sessionsCreated' = sessionsCreated + 1
          /\ LoadModelFinish(sessionsCreated + 1)
       \/ /\ LoadModelFinish(NoSession)
          /\ UNCHANGED sessionsCreated
       \/ /\ loadPc' = "createNoOptions"
          /\ UNCHANGED <<session, isModelLoaded, loadResult, sessionsCreated>>
    /\ UNCHANGED <<voiceCache, isOnnxAvailable, onnxRuntimeOk, modelFileExists, wavVars, tokVars, genVars, fsVars, appVars>>

\* part_000:103-123: the fallback create resolves, or rejects (catch, return
\* false, this.session not assigned)
LoadModelCreatedNoOptions ==
    /\ loadPc = "createNoOptions"
    /\ \/ /\ sessionsCreated < MaxSessions
          /\ sessionsCreated' = sessionsCreated + 1
          /\ LoadModelFinish(sessionsCreated + 1)
       \/ /\ LoadModelFinish(NoSession)
          /\ UNCHANGED sessionsCreated
       \/ /\ loadPc' = "idle" /\ loadResult' = "false"
          /\ UNCHANGED <<session, isModelLoaded, sessionsCreated>>
    /\ UNCHANGED <<voiceCache, isOnnxAvailable, onnxRuntimeOk, modelFileExists, wavVars, tokVars, genVars, fsVars, appVars>>

loadModel ==
    \/ LoadModelStart
    \/ LoadModelGotInfo
    \/ LoadModelCreated
    \/ LoadModelCreatedNoOptions

----------------------------------------------------------------------------
\* Text: a string is the sequence of its code points, each held as a string
\* ("I_DOT" is U+0130, "DOT_ABOVE" is U+0307).

\* part_000:21-30
VOCAB ==
    (" " :> 6) @@ ("," :> 2) @@ ("." :> 3) @@ ("!" :> 4) @@ ("?" :> 5)
    @@ ("a" :> 33) @@ ("b" :> 34) @@ ("c" :> 35) @@ ("d" :> 36) @@ ("e" :> 37)
    @@ ("f" :> 38) @@ ("g" :> 39) @@ ("h" :> 40) @@ ("i" :> 41) @@ ("j" :> 42)
    @@ ("k" :> 43) @@ ("l" :> 44) @@ ("m" :> 45) @@ ("n" :> 46) @@ ("o" :> 47)
    @@ ("p" :> 48) @@ ("q" :> 49) @@ ("r" :> 50) @@ ("s" :> 51) @@ ("t" :> 52)
    @@ ("u" :> 53) @@ ("v" :> 54) @@ ("w" :> 55) @@ ("x" :> 56) @@ ("y" :> 57)
    @@ ("z" :> 58)

\* String.prototype.toLowerCase on one code point: the code points it becomes.
\* U+0130 becomes "i" followed by U+0307; code points without a lower-case
\* form stay.
LowerCaseOf ==
    ("A" :> <<"a">>) @@ ("B" :> <<"b">>) @@ ("C" :> <<"c">>) @@ ("D" :> <<"d">>)
    @@ ("E" :> <<"e">>) @@ ("F" :> <<"f">>) @@ ("G" :> <<"g">>) @@ ("H" :> <<"h">>)
    @@ ("I" :> <<"i">>) @@ ("J" :> <<"j">>) @@ ("K" :> <<"k">>) @@ ("L" :> <<"l">>)
    @@ ("M" :> <<"m">>) @@ ("N" :> <<"n">>) @@ ("O" :> <<"o">>) @@ ("P" :> <<"p">>)
    @@ ("Q" :> <<"q">>) @@ ("R" :> <<"r">>) @@ ("S" :> <<"s">>) @@ ("T" :> <<"t">>)
    @@ ("U" :> <<"u">>) @@ ("V" :> <<"v">>) @@ ("W" :> <<"w">>) @@ ("X" :> <<"x">>)
    @@ ("Y" :> <<"y">>) @@ ("Z" :> <<"z">>) @@ ("I_DOT" :> <<"i", "DOT_ABOVE">>)

\* text.toLowerCase() (part_000:187), the halves of the text converted and
\* joined
RECURSIVE toLowerCase(_)
toLowerCase(text) ==
    IF text = <<>> THEN <<>>
    ELSE IF Len(text) = 1
    THEN (IF text[1] \in DOMAIN LowerCaseOf THEN LowerCaseOf[text[1]] ELSE text)
    ELSE LET half == Len(text) \div 2
         IN  toLowerCase(SubSeq(text, 1, half))
             \o toLowerCase(SubSeq(text, half + 1, Len(text)))

\* an unknown-symbol token pushed for a code point without an entry
PushedForUnk(char) == IF char \in DOMAIN VOCAB THEN <<VOCAB[char]>> ELSE <<1>>

\* part_000:188-190: what one iteration of the loop pushes
PushedFor(char) == IF char \in DOMAIN VOCAB THEN <<VOCAB[char]>> ELSE <<>>

\* the loop of part_000:187-191: what its iterations lo..hi push, in order
RECURSIVE Pushed(_, _, _)
Pushed(chars, lo, hi) ==
    IF lo > hi THEN <<>>
    ELSE IF lo = hi THEN PushedFor(chars[lo])
    ELSE LET mid == (lo + hi) \div 2
         IN  Pushed(chars, lo, mid) \o Pushed(chars, mid + 1, hi)

TokenizeLoop(chars, tokens) == tokens \o Pushed(chars, 1, Len(chars))

\* no end token
tokenizeNoEnd(text) == TokenizeLoop(toLowerCase(text), <<0>>)

\* the text looked up as typed
tokenizeCaseSensitive(text) == Append(TokenizeLoop(text, <<0>>), 0)

\* tokenize (part_000:178-197)
tokenize(text) == Append(TokenizeLoop(toLowerCase(text), <<0>>), 0)

\* the code points texts are drawn from
Chars == {"h", "H", "i", "I_DOT", ".", "#", "a", "Z", " "}
Texts == SeqsUpTo(Chars, MaxTextLen)

TokInit(texts) ==
    /\ tokText \in texts
    /\ tokPc = {}
    /\ tokTokens = <<>>
    /\ tokLowerTokens = <<>>

\* tokenize(text)
TokCall ==
    /\ "text" \notin tokPc
    /\ tokTokens' = tokenize(tokText)
    /\ tokPc' = tokPc \cup {"text"}
    /\ UNCHANGED <<tokText, tokLowerTokens, instVars, envVars, loadVars, wavVars, genVars, fsVars, appVars>>

\* tokenize(text.toLowerCase())
TokCallLower ==
    /\ "lower" \notin tokPc
    /\ tokLowerTokens' = tokenize(toLowerCase(tokText))
    /\ tokPc' = tokPc \cup {"lower"}
    /\ UNCHANGED <<tokText, tokTokens, instVars, envVars, loadVars, wavVars, genVars, fsVars, appVars>>

----------------------------------------------------------------------------
\* generateAudio (part_000:206-274) and what it calls

Calls == 1..MaxCalls
Voices == {"af_heart", "af_bella"}

\* the style table of a voice file, in frames of STYLE_DIM floats: af_heart
\* has a frame for every token count 0..509, af_bella one frame fewer
VoiceFrames == ("af_heart" :> 510) @@ ("af_bella" :> 509)
\* floats in a voice file that holds an error response body
ErrorBodyFloats == 3

\* a call slot: pc is the await the call is suspended at
\* (text until it is tokenized, tokens until they are in inputs, inputs until
\* session.run has resolved; inputs holds the argument of session.run;
\* downloaded is what the awaited downloadVoice resolved with, kept until
\* session.run has resolved)
IdleCall ==
    [pc |-> "idle", text |-> <<>>, voiceId |-> "", speed |-> Num(2),
     tokens |-> <<>>, numTokens |-> 0, sliceArgs |-> <<0, 0>>,
     inputs |-> <<>>, tempFilePath |-> -1, base64Data |-> <<>>,
     downloaded |-> FALSE, result |-> "none"]

\* the call has thrown error
Thrown(error) == [IdleCall EXCEPT !.pc = "thrown", !.result = error]

GenInit ==
    /\ gen = [c \in Calls |-> IdleCall]
    /\ requests = 0

FsInit ==
    /\ voiceFiles = [v \in Voices |-> "absent"]
    /\ now = 0
    /\ tempFiles = <<>>
    /\ sounds = <<>>
    /\ fetches = [v \in Voices |-> 0]

\* App.tsx:31 and before any press of Download Voice
NoDownload == [voiceId |-> "", outcome |-> "none"]

\* speed is counted in thousandths: 1000 is 1.0
\* App.tsx:23, part_002:22
DefaultSpeed == 1000
\* App.tsx:262, part_002:380 and 392
MinSpeed == 500
MaxSpeed == 2000
\* App.tsx:385 and 399, part_002:380 and 392: the 0.1 of a speed button
SpeedStep == 100

\* part_002:11
DEFAULT_MODEL_ID == "model_q8f16.onnx"

\* useState initial values (App.tsx:15-31, part_002:14-41); sound is the index
\* of the Audio.Sound in sounds, 0 for null
UiInit ==
    [speed |-> DefaultSpeed, isModelLoading |-> TRUE, error |-> "null",
     sound |-> 0, isModelDownloaded |-> FALSE, isDownloading |-> FALSE,
     isGeneratingAudio |-> FALSE, isModelInitialized |-> FALSE,
     isVoiceDownloading |-> FALSE, downloadedModels |-> <<>>,
     selectedModelId |-> DEFAULT_MODEL_ID, currentModelId |-> "null"]

\* after the mount effect (App.tsx:34-37) checkIfModelExists waits for
\* getInfoAsync; no other handler has been called
HandlersInit ==
    [checkIfModelExists |-> "getInfo", downloadModel |-> "idle",
     downloadVoice |-> "idle", initializeModel |-> "idle",
     generateSpeech |-> "idle"]

\* after the mount effect (part_002:44-47) checkDownloadedModels waits for
\* getDownloadedModels; loadModel and deleteModel hold the model ids of the
\* calls under way, downloadModel the download under way
NoCall == [modelId |-> "null", item |-> "null"]
CallsInit ==
    [getDownloadedModels |-> TRUE, loadModel |-> <<>>, deleteModel |-> <<>>,
     downloadModel |-> NoCall]

AppInit ==
    /\ lastDownload = NoDownload
    /\ downloadedVoices = {}
    /\ ui = UiInit
    /\ handlers = HandlersInit
    /\ alert = "none"
    /\ modelFiles = {}
    /\ calls = CallsInit

\* downloadVoice (part_000:131-170) from call to return. outcome is what the
\* file system and the network did: "threw" (getInfoAsync or
\* makeDirectoryAsync rejected), "exists" (the file is there), and, after
\* downloadAsync was called, "fetchThrew" (it rejected), "ok200", "non200" (it
\* resolved with another status; it has written the response body to the
\* file).
DownloadOutcomesRefetch(voiceId) ==
    {"threw", "ok200", "non200"}
       \cup {o \in {"fetchThrew"} : fetches[voiceId] < MaxFetchErrors}

DownloadOutcomes(voiceId) ==
    IF voiceFiles[voiceId] # "absent"
    THEN {"threw", "exists"}
    ELSE {"threw", "ok200", "non200"}
            \cup {o \in {"fetchThrew"} : fetches[voiceId] < MaxFetchErrors}

\* the outcomes in which downloadAsync was called (part_000:154)
Fetched(outcome) == outcome \in {"fetchThrew", "ok200", "non200"}

\* the value downloadVoice returns (part_000:147, 161, 164, 168)
DownloadResult(outcome) == outcome \in {"exists", "ok200"}

DownloadVoice(voiceId, outcome) ==
    /\ outcome \in DownloadOutcomes(voiceId)
    /\ voiceFiles' =
          CASE outcome = "ok200" -> [voiceFiles EXCEPT ![voiceId] = "voice"]
            [] outcome = "non200" -> [voiceFiles EXCEPT ![voiceId] = "errorBody"]
            [] OTHER -> voiceFiles
    /\ fetches' = IF Fetched(outcome)
                  THEN [fetches EXCEPT ![voiceId] = @ + 1]
                  ELSE fetches

\* what remains unchanged when a handler only sets component state
UiOnly ==
    UNCHANGED <<instVars, envVars, loadVars, wavVars, tokVars, genVars, fsVars,
                lastDownload, downloadedVoices, multiVars>>

\* App.tsx:21, the voice selected when the App is mounted
selectedVoice == "af_heart"

\* downloadVoice of App.tsx:143-167, the Download Voice button (shown while
\* no voice download is under way): nothing but an alert when the selected
\* voice is in downloadedVoices,
AppDownloadVoiceAlert ==
    /\ handlers.downloadVoice = "idle"
    /\ selectedVoice \in downloadedVoices
    /\ alert' = "Voice already downloaded"
    /\ UNCHANGED <<ui, handlers>>
    /\ UiOnly

\* else isVoiceDownloading is set and KokoroOnnx.downloadVoice is awaited
\* (App.tsx:149-153),
AppDownloadVoiceStart ==
    /\ handlers.downloadVoice = "idle"
    /\ selectedVoice \notin downloadedVoices
    /\ ui' = [ui EXCEPT !.isVoiceDownloading = TRUE, !.error = "null"]
    /\ handlers' = [handlers EXCEPT !.downloadVoice = "downloadVoice"]
    /\ UNCHANGED alert
    /\ UiOnly

\* and when it has returned the voice is added if it returned true, the
\* error is set if not, and isVoiceDownloading is cleared (App.tsx:153-166)
AppDownloadVoiceReturned ==
    /\ handlers.downloadVoice = "downloadVoice"
    /\ \E outcome \in {"threw", "exists", "fetchThrew", "ok200", "non200"} :
          /\ DownloadVoice(selectedVoice, outcome)
          /\ lastDownload' = [voiceId |-> selectedVoice, outcome |-> outcome]
          /\ downloadedVoices' = IF DownloadResult(outcome)
                                 THEN downloadedVoices \cup {selectedVoice}
                                 ELSE downloadedVoices
          /\ ui' = [ui EXCEPT !.isVoiceDownloading = FALSE,
                              !.error = IF DownloadResult(outcome)
                                        THEN @ ELSE "Failed to download voice"]
          /\ alert' = IF DownloadResult(outcome) THEN "Success" ELSE alert
    /\ handlers' = [handlers EXCEPT !.downloadVoice = "idle"]
    /\ UNCHANGED <<instVars, envVars, loadVars, wavVars, tokVars, genVars,
                   now, tempFiles, sounds, multiVars>>

AppDownloadVoice ==
    \/ AppDownloadVoiceAlert
    \/ AppDownloadVoiceStart
    \/ AppDownloadVoiceReturned

\* checkDownloadedVoices of App.tsx:82-106: every <voiceId>.bin in the voices
\* directory is taken as downloaded; nothing is set when the directory is
\* not there or a file system call rejects
CheckDownloadedVoices ==
    /\ downloadedVoices' \in
          {downloadedVoices, {v \in Voices : voiceFiles[v] # "absent"}}
    /\ UNCHANGED <<instVars, envVars, loadVars, wavVars, tokVars, genVars,
                   fsVars, lastDownload, ui, handlers, alert, multiVars>>

\* the double nearest to speed +/- 0.1 is off the exact value by a rounding
\* error of at most MaxRoundErr thousandths
RoundErrs == (0 - MaxRoundErr)..MaxRoundErr

\* a speed setter that takes the new value as it is
adjustSpeedUnclamped(newSpeed) == newSpeed

\* adjustSpeed of App.tsx:261-263: the value given to setSpeed
adjustSpeed(newSpeed) == Max(MinSpeed, Min(MaxSpeed, newSpeed))

\* App.tsx:383-388, the - button
SpeedDecrease ==
    /\ \E e \in RoundErrs :
          ui' = [ui EXCEPT !.speed = adjustSpeed(ui.speed - SpeedStep + e)]
    /\ UNCHANGED <<handlers, alert>>
    /\ UiOnly

\* App.tsx:390-395, the Reset button
SpeedReset ==
    /\ ui' = [ui EXCEPT !.speed = DefaultSpeed]
    /\ UNCHANGED <<handlers, alert>>
    /\ UiOnly

\* App.tsx:397-402, the + button
SpeedIncrease ==
    /\ \E e \in RoundErrs :
          ui' = [ui EXCEPT !.speed = adjustSpeed(ui.speed + SpeedStep + e)]
    /\ UNCHANGED <<handlers, alert>>
    /\ UiOnly

\* SpeedSelector of part_002:375-399, the - button: disabled at 0.5 and
\* below, else setSpeed(Math.max(0.5, speed - 0.1))
SpeedSelectorDecrease ==
    /\ ~(ui.speed <= MinSpeed)
    /\ \E e \in RoundErrs :
          ui' = [ui EXCEPT !.speed = Max(MinSpeed, ui.speed - SpeedStep + e)]
    /\ UNCHANGED <<handlers, alert>>
    /\ UiOnly

\* SpeedSelector of part_002:375-399, the + button: disabled at 2.0 and
\* above, else setSpeed(Math.min(2.0, speed + 0.1))
SpeedSelectorIncrease ==
    /\ ~(ui.speed >= MaxSpeed)
    /\ \E e \in RoundErrs :
          ui' = [ui EXCEPT !.speed = Min(MaxSpeed, ui.speed + SpeedStep + e)]
    /\ UNCHANGED <<handlers, alert>>
    /\ UiOnly

\* numTokens with tokens.length - 2 used as it is
NumTokensUnclamped(tokens) == Len(tokens) - 2

\* part_000:221
NumTokens(tokens) == Min(Max(Len(tokens) - 2, 0), 509)

\* Array slice(begin, end) on an array of length len, for 0 <= begin <= end:
\* the index interval [from, to) it returns
Slice(len, begin, end) == <<Min(begin, len), Min(end, len)>>

\* getVoiceData(voiceId) of ./voices: the number of floats of the blob it
\* resolves with, read from the voice file
VoiceDataLength(voiceId) ==
    CASE voiceFiles[voiceId] = "voice" -> VoiceFrames[voiceId] * STYLE_DIM
      [] voiceFiles[voiceId] = "errorBody" -> ErrorBodyFloats
      [] OTHER -> 0

\* a Tensor constructor that takes data of any length
TensorUnchecked(length, dims) == TRUE

\* new Tensor(type, data, dims) accepts data whose length is the product of
\* dims
TensorSizeOk(length, dims) ==
    length = (IF Len(dims) = 1 THEN dims[1] ELSE dims[1] * dims[2])

\* part_000:207-217: the guards, then await this.downloadVoice(voiceId)
GenEnter(c, text, voiceId, speed) ==
    /\ gen[c].pc \in {"idle", "returned", "thrown"}
    /\ IF ~isOnnxAvailable
       THEN gen' = [gen EXCEPT ![c] = Thrown("ONNX Runtime is not available")]
       ELSE IF ~isModelLoaded
       THEN gen' = [gen EXCEPT ![c] = Thrown("Model not loaded")]
       ELSE gen' = [gen EXCEPT ![c] = [IdleCall EXCEPT !.pc = "downloadVoice",
                                           !.text = text, !.voiceId = voiceId,
                                           !.speed = speed]]
    /\ requests' = requests + 1

\* generateAudio entered without the isModelLoaded guard
GenStartUnguarded(c, text, voiceId, speed) ==
    /\ gen[c].pc \in {"idle", "returned", "thrown"}
    /\ IF ~isOnnxAvailable
       THEN gen' = [gen EXCEPT ![c] = Thrown("ONNX Runtime is not available")]
       ELSE gen' = [gen EXCEPT ![c] = [IdleCall EXCEPT !.pc = "downloadVoice",
                                           !.text = text, !.voiceId = voiceId,
                                           !.speed = speed]]
    /\ requests' = requests + 1
    /\ UNCHANGED <<instVars, envVars, loadVars, wavVars, tokVars, fsVars, appVars>>

\* generateAudio called with the caller standing still
GenStart(c, text, voiceId, speed) ==
    /\ GenEnter(c, text, voiceId, speed)
    /\ UNCHANGED <<instVars, envVars, loadVars, wavVars, tokVars, fsVars, appVars>>

\* part_000:217-224: downloadVoice returns (its value is dropped), the text
\* is tokenized, then await getVoiceData(voiceId)
GenDownloadedVoice(c) ==
    /\ gen[c].pc = "downloadVoice"
    /\ \E outcome \in {"threw", "exists", "fetchThrew", "ok200", "non200"} :
          /\ DownloadVoice(gen[c].voiceId, outcome)
          /\ LET tokens == tokenize(gen[c].text)
             IN  gen' = [gen EXCEPT ![c].pc = "getVoiceData",
                                    ![c].text = <<>>,
                                    ![c].tokens = tokens,
                                    ![c].numTokens = NumTokens(tokens),
                                    ![c].downloaded = DownloadResult(outcome)]
    /\ UNCHANGED <<instVars, envVars, loadVars, wavVars, tokVars, requests,
                   now, tempFiles, sounds, appVars>>

\* part_000:229-241: the three tensors
BuildInputs(tokens, styleData, speed) ==
    [input_ids |-> [type |-> "int64", data |-> tokens, dims |-> <<1, Len(tokens)>>],
     style |-> [type |-> "float32", data |-> styleData, dims |-> <<1, STYLE_DIM>>],
     speed |-> [type |-> "float32", data |-> <<speed>>, dims |-> <<1>>]]

\* part_000:224-250: getVoiceData resolves or rejects, the style frame is
\* sliced, the tensors are built (a Tensor constructor may throw), then
\* await this.session.run(inputs)
GenGotVoiceData(c) ==
    /\ gen[c].pc = "getVoiceData"
    /\ \E rejected \in BOOLEAN :
          LET len == VoiceDataLength(gen[c].voiceId)
              offset == gen[c].numTokens * STYLE_DIM
              sliceArgs == <<offset, offset + STYLE_DIM>>
              styleData == Slice(len, sliceArgs[1], sliceArgs[2])
              inputs == BuildInputs(gen[c].tokens, styleData, gen[c].speed)
          IN  IF rejected \/ voiceFiles[gen[c].voiceId] = "absent"
              THEN gen' = [gen EXCEPT ![c] = Thrown("getVoiceData failed")]
              ELSE IF ~TensorSizeOk(styleData[2] - styleData[1], inputs.style.dims)
              THEN gen' = [gen EXCEPT ![c] = Thrown("Tensor size mismatch")]
              ELSE IF session = NoSession
              THEN gen' = [gen EXCEPT ![c] = Thrown("session is null")]
              ELSE gen' = [gen EXCEPT ![c].pc = "run",
                                     ![c].tokens = <<>>,
                                     ![c].sliceArgs = sliceArgs,
                                     ![c].inputs = <<inputs>>]
    /\ UNCHANGED <<instVars, envVars, loadVars, wavVars, tokVars, requests, fsVars, appVars>>

\* _arrayBufferToBase64 (part_000:310-317): btoa of the bytes, as the
\* sequence of its 6-bit digits, 64 standing for the padding "="
_arrayBufferToBase64(buffer) ==
    LET n == Len(buffer)
        byte(k) == IF k <= n THEN buffer[k] ELSE 0
        digit(g, j) ==
            LET b0 == byte(3 * g + 1)
                b1 == byte(3 * g + 2)
                b2 == byte(3 * g + 3)
            IN  CASE j = 1 -> b0 \div 4
                  [] j = 2 -> (b0 % 4) * 16 + b1 \div 16
                  [] j = 3 -> IF 3 * g + 2 > n THEN 64 ELSE (b1 % 16) * 4 + b2 \div 64
                  [] OTHER -> IF 3 * g + 3 > n THEN 64 ELSE b2 % 64
    IN  [i \in 1..(4 * ((n + 2) \div 3)) |-> digit((i - 1) \div 4, ((i - 1) % 4) + 1)]

\* writeAsStringAsync(.., { encoding: Base64 }): the bytes the file gets
Base64Decode(digits) ==
    LET pad == Cardinality({i \in 1..Len(digits) : digits[i] = 64})
        n == 3 * (Len(digits) \div 4) - pad
        d(k) == IF digits[k] = 64 THEN 0 ELSE digits[k]
        byte(g, j) ==
            CASE j = 1 -> d(4 * g + 1) * 4 + d(4 * g + 2) \div 16
              [] j = 2 -> (d(4 * g + 2) % 16) * 16 + d(4 * g + 3) \div 4
              [] OTHER -> (d(4 * g + 3) % 4) * 64 + d(4 * g + 4)
    IN  [i \in 1..n |-> byte((i - 1) \div 3, ((i - 1) % 3) + 1)]

\* what session.run resolves with: no output object, a map without
\* 'waveform', a waveform without data, or a waveform
Waveforms == {<<>>, ScenarioWaveform}
RunOutputs ==
    {[kind |-> k, data |-> <<>>] : k \in {"undefined", "noWaveform", "nullData"}}
    \cup {[kind |-> "waveform", data |-> w] : w \in Waveforms}

\* part_000:252, the output check
InvalidOutput(outputs) == outputs.kind \in {"undefined", "noWaveform", "nullData"}

\* a version in which a failed session.run drops the loaded session
GenRanDropsSession(c) ==
    /\ gen[c].pc = "run"
    /\ gen' = [gen EXCEPT ![c] = Thrown("session.run failed")]
    /\ session' = NoSession
    /\ isModelLoaded' = FALSE
    /\ UNCHANGED <<voiceCache, isOnnxAvailable, envVars, loadVars, wavVars,
                   tokVars, requests, fsVars, appVars>>

\* part_000:250-295: session.run resolves or rejects, the output is checked,
\* the waveform is encoded (_floatArrayToAudioFile, part_000:281-295), then
\* await writeAsStringAsync(tempFilePath, base64Data). Date.now() returns a
\* value t not before the one it returned last.
GenRan(c) ==
    /\ gen[c].pc = "run"
    /\ \/ /\ gen' = [gen EXCEPT ![c] = Thrown("session.run failed")]
          /\ UNCHANGED now
       \/ \E outputs \in RunOutputs :
             IF InvalidOutput(outputs)
             THEN /\ gen' = [gen EXCEPT ![c] =
                                Thrown("Invalid output from model inference")]
                  /\ UNCHANGED now
             ELSE \E t \in now..MaxClock :
                     LET wav == _floatArrayToWav(outputs.data, SAMPLE_RATE)
                     IN  /\ now' = t
                         /\ gen' = [gen EXCEPT ![c].pc = "write",
                                                ![c].inputs = <<>>,
                                                ![c].downloaded = FALSE,
                                                ![c].tempFilePath = t,
                                                ![c].base64Data = _arrayBufferToBase64(wav)]
    /\ UNCHANGED <<instVars, envVars, loadVars, wavVars, tokVars, requests,
                   voiceFiles, tempFiles, sounds, fetches, appVars>>

\* the temporary file at path holds bytes
WriteFile(path, bytes) ==
    [p \in (DOMAIN tempFiles) \cup {path} |-> IF p = path THEN bytes ELSE tempFiles[p]]

\* a version that goes on to createAsync when the write has rejected
GenWrittenIgnoringFailure(c) ==
    /\ gen[c].pc = "write"
    /\ LET bytes == Base64Decode(gen[c].base64Data)
       IN  tempFiles' \in {WriteFile(gen[c].tempFilePath, bytes),
                            WriteFile(gen[c].tempFilePath,
                                      SubSeq(bytes, 1, Len(bytes) \div 2))}
    /\ gen' = [gen EXCEPT ![c].pc = "createSound", ![c].base64Data = <<>>]
    /\ UNCHANGED <<instVars, envVars, loadVars, wavVars, tokVars, requests,
                   voiceFiles, now, sounds, fetches, appVars>>

\* part_000:291-297 and 261-264: the write resolves, then await
\* Audio.Sound.createAsync;
\* or it rejects, with nothing or a part of the data in the file
GenWritten(c) ==
    /\ gen[c].pc = "write"
    /\ LET bytes == Base64Decode(gen[c].base64Data)
       IN  \/ /\ tempFiles' = WriteFile(gen[c].tempFilePath, bytes)
              /\ gen' = [gen EXCEPT ![c].pc = "createSound", ![c].base64Data = <<>>]
           \/ /\ tempFiles' \in {tempFiles,
                                WriteFile(gen[c].tempFilePath,
                                          SubSeq(bytes, 1, Len(bytes) \div 2))}
              /\ gen' = [gen EXCEPT ![c] = Thrown("write failed")]
    /\ UNCHANGED <<instVars, envVars, loadVars, wavVars, tokVars, requests,
                   voiceFiles, now, sounds, fetches, appVars>>

\* part_000:264-273: createAsync resolves with a loaded sound, which is
\* returned, or rejects
GenSoundCreated(c) ==
    /\ gen[c].pc = "createSound"
    /\ \/ /\ Len(sounds) < MaxSounds
          /\ sounds' = Append(sounds, [uri |-> gen[c].tempFilePath, loaded |-> TRUE])
          /\ gen' = [gen EXCEPT ![c] = [IdleCall EXCEPT !.pc = "returned",
                                           !.result = "sound"]]
       \/ /\ gen' = [gen EXCEPT ![c] = Thrown("createAsync failed")]
          /\ UNCHANGED sounds
    /\ UNCHANGED <<instVars, envVars, loadVars, wavVars, tokVars, requests,
                   voiceFiles, now, tempFiles, fetches, appVars>>

\* the texts given to generateAudio: short ones, and runs of "a" around the
\* 509-token limit
Repeat(ch, n) == [i \in 1..n |-> ch]
GenTexts ==
    {<<>>, <<"H", "i", ".">>, <<"#">>}
    \cup {Repeat("a", n) : n \in (MaxRepeat - 1)..MaxRepeat}
Speeds == {Num(2), Num(5)}

----------------------------------------------------------------------------
\* _floatArrayToWav as an operation

WavInputs == SeqsUpTo(Floats, MaxWavLen) \cup {ScenarioWaveform}
SampleRates == {SAMPLE_RATE, 8000, 44100}

WavInit(inputs, rates) ==
    /\ floatArray \in inputs
    /\ sampleRate \in rates
    /\ wavPc = "ready"
    /\ wavBuffer = <<>>
    /\ wavFirst = <<>>

\* the first call with the drawn arguments
WavCall ==
    /\ wavPc = "ready"
    /\ wavBuffer' = _floatArrayToWav(floatArray, sampleRate)
    /\ wavFirst' = wavBuffer'
    /\ wavPc' = "done"
    /\ UNCHANGED <<floatArray, sampleRate, instVars, envVars, loadVars, tokVars, genVars, fsVars, appVars>>

InitWav == InstInit /\ EnvReady /\ LoadInit /\ WavInit(WavInputs, SampleRates) /\ TokInit({<<>>}) /\ GenInit /\ FsInit /\ AppInit
NextWav == WavCall
SpecWav == InitWav /\ [][NextWav]_vars

\* a call with other arguments between the two calls
OtherWavInputs == {<<>>, ScenarioWaveform}

WavCallOther ==
    /\ wavPc = "done"
    /\ \E samples \in OtherWavInputs, rate \in SampleRates :
          wavBuffer' = _floatArrayToWav(samples, rate)
    /\ wavPc' = "between"
    /\ UNCHANGED <<floatArray, sampleRate, wavFirst, instVars, envVars, loadVars, tokVars, genVars, fsVars, appVars>>

\* the second call with the drawn arguments
WavCallAgain ==
    /\ wavPc \in {"done", "between"}
    /\ wavBuffer' = _floatArrayToWav(floatArray, sampleRate)
    /\ wavPc' = "again"
    /\ UNCHANGED <<floatArray, sampleRate, wavFirst, instVars, envVars, loadVars, tokVars, genVars, fsVars, appVars>>

InitWavPure ==
    /\ InstInit /\ EnvInit /\ LoadInit /\ TokInit({<<>>}) /\ GenInit /\ FsInit /\ AppInit
    /\ WavInit(SeqsUpTo(Floats, MaxPureLen), SampleRates)
NextWavPure ==
    \/ WavCall
    \/ WavCallOther
    \/ WavCallAgain
    \/ CheckOnnxAvailability
    \/ loadModel
SpecWavPure == InitWavPure /\ [][NextWavPure]_vars

InitTok ==
    /\ InstInit /\ EnvReady /\ LoadInit /\ TokInit(Texts) /\ GenInit /\ FsInit /\ AppInit
    /\ WavInit({<<>>}, {SAMPLE_RATE})
NextTok ==
    \/ TokCall
    \/ TokCallLower
SpecTok == InitTok /\ [][NextTok]_vars

Init ==
    /\ InstInit /\ EnvReady /\ LoadInit /\ GenInit /\ FsInit /\ AppInit
    /\ TokInit({<<>>}) /\ WavInit({<<>>}, {SAMPLE_RATE})
generateAudio(c) ==
    \/ /\ requests < MaxRequests
       /\ \E text \in GenTexts, voiceId \in Voices, speed \in Speeds :
             GenStart(c, text, voiceId, speed)
    \/ GenDownloadedVoice(c)
    \/ GenGotVoiceData(c)
    \/ GenRan(c)
    \/ GenWritten(c)
    \/ GenSoundCreated(c)
Next ==
    \/ loadModel
    \/ generateAudio(1)
Spec == Init /\ [][Next]_vars

\* generateAudio called by several callers, each once: nothing in
\* generateAudio (part_000:206-274) or in generateSpeech (App.tsx:190-223)
\* waits for a call that is under way
generateAudioOnce(c) ==
    \/ /\ gen[c].pc = "idle"
       /\ GenStart(c, <<"H", "i", ".">>, "af_heart", Num(2))
    \/ GenDownloadedVoice(c)
    \/ GenGotVoiceData(c)
    \/ GenRan(c)
    \/ GenWritten(c)
    \/ GenSoundCreated(c)
NextConc ==
    \/ loadModel
    \/ \E c \in Calls : generateAudioOnce(c)
SpecConc == Init /\ [][NextConc]_vars

\* generateAudio requests for the selected voice, made one after the other
generateAudioRetry(c) ==
    \/ /\ requests < MaxRetryRequests
       /\ GenStart(c, <<"H", "i", ".">>, selectedVoice, Num(2))
    \/ GenDownloadedVoice(c)
    \/ GenGotVoiceData(c)
    \/ GenRan(c)
    \/ GenWritten(c)
    \/ GenSoundCreated(c)
NextRetry ==
    \/ loadModel
    \/ generateAudioRetry(1)
SpecRetry == Init /\ [][NextRetry]_vars

\* the App's voice handling next to generateAudio requests for the selected
\* voice
generateAudioSelected(c) ==
    \/ /\ requests < MaxRequests
       /\ GenStart(c, <<"H", "i", ".">>, selectedVoice, Num(2))
    \/ GenDownloadedVoice(c)
    \/ GenGotVoiceData(c)
    \/ GenRan(c)
    \/ GenWritten(c)
    \/ GenSoundCreated(c)
NextVoice ==
    \/ loadModel
    \/ generateAudioSelected(1)
    \/ AppDownloadVoice
    \/ CheckDownloadedVoices
SpecVoice == Init /\ [][NextVoice]_vars

----------------------------------------------------------------------------
\* The App component of App.tsx: its handlers, one action per await

\* setIsModelDownloaded(value), and the effect on [isModelDownloaded]
\* (App.tsx:60-65) that runs when the value has changed: initializeModel()
\* is called when the model is downloaded and not initialized, and it sets
\* isModelLoading and calls KokoroOnnx.loadModel (App.tsx:170-174)
EffectRuns(value) ==
    value # ui.isModelDownloaded /\ value /\ ~ui.isModelInitialized

\* handler is the handler that sets the value and returns, state is the
\* component state with what else the handler has set
SetIsModelDownloaded(handler, state, value) ==
    /\ ui' = [state EXCEPT !.isModelDownloaded = value,
                           !.isModelLoading = IF EffectRuns(value) THEN TRUE ELSE @]
    /\ handlers' = [handlers EXCEPT
                       ![handler] = "idle",
                       !.initializeModel = IF EffectRuns(value) THEN "loadModel" ELSE @]
    /\ IF EffectRuns(value)
       THEN LoadModelEnter
       ELSE UNCHANGED <<isOnnxAvailable, loadVars>>

\* checkIfModelExists (App.tsx:67-80), called when the component is mounted:
\* getInfoAsync resolves, or rejects
CheckIfModelExists ==
    /\ handlers.checkIfModelExists = "getInfo"
    /\ \/ /\ SetIsModelDownloaded("checkIfModelExists", ui, modelFileExists)
          /\ UNCHANGED alert
       \/ /\ ui' = [ui EXCEPT !.error = "Error checking if model exists"]
          /\ handlers' = [handlers EXCEPT !.checkIfModelExists = "idle"]
          /\ UNCHANGED <<isOnnxAvailable, loadVars, alert>>
    /\ UNCHANGED <<session, isModelLoaded, voiceCache, envVars, wavVars, tokVars,
                   genVars, fsVars, lastDownload, downloadedVoices, multiVars>>

\* downloadModel (App.tsx:108-141), the Download Model button (shown while
\* no model download is under way): nothing but an alert when the model is
\* downloaded,
DownloadModelAlert ==
    /\ handlers.downloadModel = "idle"
    /\ ui.isModelDownloaded
    /\ alert' = "Model already downloaded"
    /\ UNCHANGED <<ui, handlers>>
    /\ UiOnly

\* else isDownloading is set and downloadAsync is awaited (App.tsx:114-129),
DownloadModelStart ==
    /\ handlers.downloadModel = "idle"
    /\ ~ui.isModelDownloaded
    /\ ui' = [ui EXCEPT !.isDownloading = TRUE, !.error = "null"]
    /\ handlers' = [handlers EXCEPT !.downloadModel = "downloadAsync"]
    /\ UNCHANGED alert
    /\ UiOnly

\* a version whose catch leaves without clearing isDownloading
DownloadModelFinishedNoFinally ==
    /\ handlers.downloadModel = "downloadAsync"
    /\ ui' = [ui EXCEPT !.error = "Error downloading model. Please try again."]
    /\ handlers' = [handlers EXCEPT !.downloadModel = "idle"]
    /\ UNCHANGED alert
    /\ UiOnly

\* and when downloadAsync has resolved with the uri of the file the model
\* counts as downloaded; when it has rejected, or resolved with nothing, the
\* error is set; isDownloading is cleared (App.tsx:129-140)
DownloadModelFinished ==
    /\ handlers.downloadModel = "downloadAsync"
    /\ \/ /\ modelFileExists' = TRUE
          /\ SetIsModelDownloaded("downloadModel",
                                  [ui EXCEPT !.isDownloading = FALSE], TRUE)
          /\ alert' = "Success"
       \/ /\ ui' = [ui EXCEPT !.isDownloading = FALSE,
                              !.error = "Error downloading model. Please try again."]
          /\ handlers' = [handlers EXCEPT !.downloadModel = "idle"]
          /\ UNCHANGED <<modelFileExists, isOnnxAvailable, loadVars, alert>>
    /\ UNCHANGED <<session, isModelLoaded, voiceCache, onnxRuntimeOk,
                   sessionsCreated, wavVars, tokVars, genVars, fsVars,
                   lastDownload, downloadedVoices, multiVars>>

\* initializeModel (App.tsx:169-188) after KokoroOnnx.loadModel has returned
\* (it returns false where it fails, it does not throw): isModelInitialized
\* or the error is set, and isModelLoading is cleared
InitializeModelReturned ==
    /\ handlers.initializeModel = "loadModel"
    /\ loadPc = "idle"
    /\ ui' = IF loadResult = "true"
             THEN [ui EXCEPT !.isModelInitialized = TRUE, !.isModelLoading = FALSE]
             ELSE [ui EXCEPT !.error = "Failed to initialize model",
                             !.isModelLoading = FALSE]
    /\ handlers' = [handlers EXCEPT !.initializeModel = "idle"]
    /\ UNCHANGED alert
    /\ UiOnly

\* the speed state as the number given to the engine (Num counts halves:
\* exact for the multiples of 0.5)
SpeedArgument(speed) == Num((2 * speed) \div DefaultSpeed)

\* the text state (App.tsx:15), cut to a short one
textState == <<"H", "i", ".">>

\* the guards of generateSpeech (App.tsx:191-199)
GenerateSpeechGuards ==
    ui.isModelInitialized /\ selectedVoice \in downloadedVoices

\* generateSpeech (App.tsx:190-223), the Generate & Play button (shown while
\* no audio is being generated): nothing but an alert when the model is
\* not initialized or the selected voice is not downloaded,
GenerateSpeechAlert ==
    /\ handlers.generateSpeech = "idle"
    /\ ~GenerateSpeechGuards
    /\ alert' = IF ~ui.isModelInitialized
                THEN "Model not initialized" ELSE "Voice not downloaded"
    /\ UNCHANGED <<ui, handlers>>
    /\ UiOnly

\* what generateSpeech does past its guards: isGeneratingAudio is set, the
\* error cleared, then the previous sound is unloaded if there is one
\* (App.tsx:201-208), else KokoroOnnx.generateAudio is called at once
GenerateSpeechProceeds ==
    /\ ui' = [ui EXCEPT !.isGeneratingAudio = TRUE, !.error = "null"]
    /\ IF ui.sound # 0
       THEN /\ handlers' = [handlers EXCEPT !.generateSpeech = "unloadAsync"]
            /\ UNCHANGED genVars
       ELSE /\ handlers' = [handlers EXCEPT !.generateSpeech = "generateAudio"]
            /\ GenEnter(1, textState, selectedVoice, SpeedArgument(ui.speed))
    /\ UNCHANGED <<instVars, envVars, loadVars, wavVars, tokVars, fsVars,
                   lastDownload, downloadedVoices, alert, multiVars>>

\* a version of generateSpeech without the two guards
GenerateSpeechStartUnguarded ==
    /\ handlers.generateSpeech = "idle"
    /\ requests < MaxRetryRequests
    /\ GenerateSpeechProceeds

GenerateSpeechStart ==
    /\ handlers.generateSpeech = "idle"
    /\ requests < MaxRetryRequests
    /\ GenerateSpeechGuards
    /\ GenerateSpeechProceeds

\* the catch and the finally of generateSpeech (App.tsx:217-222)
GenerateSpeechCaught ==
    /\ ui' = [ui EXCEPT !.error = "Error generating speech. Please try again.",
                        !.isGeneratingAudio = FALSE]
    /\ handlers' = [handlers EXCEPT !.generateSpeech = "idle"]

\* a version that goes on to generateAudio with the previous sound left
\* loaded
GenerateSpeechKeepsSound ==
    /\ handlers.generateSpeech = "unloadAsync"
    /\ handlers' = [handlers EXCEPT !.generateSpeech = "generateAudio"]
    /\ GenEnter(1, textState, selectedVoice, SpeedArgument(ui.speed))
    /\ UNCHANGED <<instVars, envVars, loadVars, wavVars, tokVars, fsVars,
                   lastDownload, downloadedVoices, ui, alert, multiVars>>

\* sound.unloadAsync() resolves and KokoroOnnx.generateAudio is called
\* (App.tsx:207-211), or it rejects
GenerateSpeechUnloaded ==
    /\ handlers.generateSpeech = "unloadAsync"
    /\ \/ /\ sounds' = [sounds EXCEPT ![ui.sound].loaded = FALSE]
          /\ handlers' = [handlers EXCEPT !.generateSpeech = "generateAudio"]
          /\ GenEnter(1, textState, selectedVoice, SpeedArgument(ui.speed))
          /\ UNCHANGED ui
       \/ /\ GenerateSpeechCaught
          /\ UNCHANGED <<sounds, genVars>>
    /\ UNCHANGED <<instVars, envVars, loadVars, wavVars, tokVars, voiceFiles, now,
                   tempFiles, fetches, lastDownload, downloadedVoices, alert, multiVars>>

\* KokoroOnnx.generateAudio has returned the sound it created, the latest
\* of sounds, which becomes the sound state and is played (App.tsx:211-215);
\* or it has thrown
GenerateSpeechGenerated ==
    /\ handlers.generateSpeech = "generateAudio"
    /\ \/ /\ gen[1].pc = "returned"
          /\ ui' = [ui EXCEPT !.sound = Len(sounds)]
          /\ handlers' = [handlers EXCEPT !.generateSpeech = "playAsync"]
       \/ /\ gen[1].pc = "thrown"
          /\ GenerateSpeechCaught
    /\ gen' = [gen EXCEPT ![1] = IdleCall]
    /\ UNCHANGED <<instVars, envVars, loadVars, wavVars, tokVars, requests, fsVars,
                   lastDownload, downloadedVoices, alert, multiVars>>

\* newSound.playAsync() resolves, or rejects; isGeneratingAudio is cleared
\* (App.tsx:215-222)
GenerateSpeechPlayed ==
    /\ handlers.generateSpeech = "playAsync"
    /\ \/ /\ ui' = [ui EXCEPT !.isGeneratingAudio = FALSE]
          /\ handlers' = [handlers EXCEPT !.generateSpeech = "idle"]
       \/ GenerateSpeechCaught
    /\ UNCHANGED alert
    /\ UiOnly

\* the steps of the engine under the calls of the component
EngineSteps ==
    \/ LoadModelGotInfo
    \/ LoadModelCreated
    \/ LoadModelCreatedNoOptions
    \/ GenDownloadedVoice(1)
    \/ GenGotVoiceData(1)
    \/ GenRan(1)
    \/ GenWritten(1)
    \/ GenSoundCreated(1)

\* the component on a device whose model file may be there or not
InitApp ==
    /\ InstInit /\ EnvInit /\ LoadInit /\ GenInit /\ FsInit /\ AppInit
    /\ TokInit({<<>>}) /\ WavInit({<<>>}, {SAMPLE_RATE})
NextApp ==
    \/ CheckIfModelExists
    \/ DownloadModelAlert
    \/ DownloadModelStart
    \/ DownloadModelFinished
    \/ InitializeModelReturned
    \/ AppDownloadVoice
    \/ GenerateSpeechAlert
    \/ GenerateSpeechStart
    \/ GenerateSpeechUnloaded
    \/ GenerateSpeechGenerated
    \/ GenerateSpeechPlayed
    \/ EngineSteps
SpecApp == InitApp /\ [][NextApp]_vars

\* the handlers of the component without their alerts, for the properties
\* of progress
NextAppLive ==
    \/ CheckIfModelExists
    \/ DownloadModelStart
    \/ DownloadModelFinished
    \/ InitializeModelReturned
    \/ AppDownloadVoiceStart
    \/ AppDownloadVoiceReturned
    \/ GenerateSpeechStart
    \/ GenerateSpeechUnloaded
    \/ GenerateSpeechGenerated
    \/ GenerateSpeechPlayed
    \/ EngineSteps

\* every awaited operation settles: the promises of the file system, the
\* network, the runtime and the player resolve or reject, and the
\* continuation of the handler that awaits them runs. One condition per
\* handler, over the steps of the handler and of the engine call it awaits.
AppFairness ==
    /\ WF_vars(DownloadModelFinished)
    /\ WF_vars(AppDownloadVoiceReturned)
    /\ WF_vars(LoadModelGotInfo \/ LoadModelCreated \/ LoadModelCreatedNoOptions
                  \/ InitializeModelReturned)
    /\ WF_vars(GenDownloadedVoice(1) \/ GenGotVoiceData(1) \/ GenRan(1)
                  \/ GenWritten(1) \/ GenSoundCreated(1)
                  \/ GenerateSpeechUnloaded \/ GenerateSpeechGenerated
                  \/ GenerateSpeechPlayed)
SpecAppLive == InitApp /\ [][NextAppLive]_vars /\ AppFairness

----------------------------------------------------------------------------
\* The multi-model App component (part_002). What it awaits is not in the
\* sources: getDownloadedModels, downloadModel and deleteModel of
\* ./kokoro/models, and KokoroOnnx.loadModel(modelId). They are taken as
\* operations on the model files of the device that resolve with success
\* or failure, or reject.

\* Object.keys(MODELS), the items of the model selector (part_002:580)
ModelList == <<DEFAULT_MODEL_ID, "model_fp16.onnx">>
ModelIds == {ModelList[i] : i \in 1..Len(ModelList)}

\* the elements of an array
Elements(array) == {array[i] : i \in 1..Len(array)}

\* array.filter(id => id !== modelId) (part_002:165)
Without(array, modelId) == SelectSeq(array, LAMBDA id : id # modelId)

\* array with the element at index i removed
RemoveAt(array, i) == SubSeq(array, 1, i - 1) \o SubSeq(array, i + 1, Len(array))

\* getDownloadedModels(): the ids of MODELS whose file is on the device
getDownloadedModels == SelectSeq(ModelList, LAMBDA id : id \in modelFiles)

\* what the engine, the file system and the single-model handlers keep
MultiOnly ==
    UNCHANGED <<instVars, envVars, loadVars, wavVars, tokVars, genVars, fsVars,
                lastDownload, downloadedVoices, handlers>>

\* initializeModel(modelId) until its await (part_002:202-207), called with
\* the component state being state and the calls under way being under
InitializeModelCall(state, under, modelId) ==
    /\ Len(under.loadModel) < MaxLoads
    /\ ui' = [state EXCEPT !.isModelLoading = TRUE]
    /\ calls' = [under EXCEPT !.loadModel = Append(@, modelId)]

\* a handler has set the component state to state, with a new
\* downloadedModels array, and the calls under way to under; the effect on
\* [downloadedModels] (part_002:70-75) runs after state was rendered and
\* calls initializeModel(selectedModelId) when a model is downloaded and
\* none is initialized
SetDownloadedModels(state, under) ==
    IF Len(state.downloadedModels) > 0 /\ ~state.isModelInitialized
    THEN InitializeModelCall(state, under, state.selectedModelId)
    ELSE ui' = state /\ calls' = under

\* checkDownloadedModels (part_002:77-98), called when the component is
\* mounted: getDownloadedModels resolves, or rejects
CheckDownloadedModels ==
    /\ calls.getDownloadedModels
    /\ LET models == getDownloadedModels
           under == [calls EXCEPT !.getDownloadedModels = FALSE]
       IN  \/ SetDownloadedModels(
                 [ui EXCEPT !.downloadedModels = models,
                            !.selectedModelId =
                                IF Len(models) = 0 THEN @
                                ELSE IF DEFAULT_MODEL_ID \in Elements(models)
                                THEN DEFAULT_MODEL_ID ELSE models[1],
                            !.isModelDownloaded = Len(models) > 0],
                 under)
           \/ /\ ui' = [ui EXCEPT !.error = "Error checking downloaded models"]
              /\ calls' = under
    /\ UNCHANGED <<modelFiles, alert>>
    /\ MultiOnly

\* the Initialize button (part_002:436-444): shown while no model is
\* initialized and the selected model is downloaded, disabled while
\* isModelLoading
InitializePress ==
    /\ ~ui.isModelInitialized
    /\ ui.selectedModelId \in Elements(ui.downloadedModels)
    /\ ~ui.isModelLoading
    /\ InitializeModelCall(ui, calls, ui.selectedModelId)
    /\ UNCHANGED <<modelFiles, alert>>
    /\ MultiOnly

\* a press on the item of a model in the selector (part_002:328-336): the
\* model is selected, and initializeModel(item) is called when it is
\* downloaded and not the loaded one
ModelItemPress(item) ==
    /\ LET state == [ui EXCEPT !.selectedModelId = item]
       IN  IF item \in Elements(ui.downloadedModels) /\ item # ui.currentModelId
           THEN InitializeModelCall(state, calls, item)
           ELSE ui' = state /\ UNCHANGED calls
    /\ UNCHANGED <<modelFiles, alert>>
    /\ MultiOnly

\* initializeModel(modelId) after KokoroOnnx.loadModel(modelId), the i-th of
\* the calls under way, has returned (part_002:207-221): true only with the
\* model file on the device
MultiInitializeModelReturned(i) ==
    /\ i \in 1..Len(calls.loadModel)
    /\ LET modelId == calls.loadModel[i]
       IN  \/ /\ modelId \in modelFiles
              /\ ui' = [ui EXCEPT !.isModelInitialized = TRUE,
                                  !.currentModelId = modelId,
                                  !.isModelLoading = FALSE]
           \/ ui' = [ui EXCEPT !.error = "Failed to initialize model",
                               !.isModelLoading = FALSE]
    /\ calls' = [calls EXCEPT !.loadModel = RemoveAt(@, i)]
    /\ UNCHANGED <<modelFiles, alert>>
    /\ MultiOnly

\* deleteSelectedModel(modelId) (part_002:154-174), the Delete button of an
\* item: nothing but an alert for the loaded model,
DeleteSelectedModelAlert(modelId) ==
    /\ modelId = ui.currentModelId
    /\ alert' = "Cannot Delete"
    /\ UNCHANGED <<ui, multiVars>>
    /\ MultiOnly

\* else deleteModel(modelId) is awaited (part_002:162),
DeleteSelectedModelStart(modelId) ==
    /\ modelId # ui.currentModelId
    /\ modelId \in Elements(ui.downloadedModels)
    /\ Len(calls.deleteModel) < MaxDeletes
    /\ calls' = [calls EXCEPT !.deleteModel = Append(@, modelId)]
    /\ UNCHANGED <<ui, modelFiles, alert>>
    /\ MultiOnly

\* and when it has resolved with true the model is taken out of
\* downloadedModels; the error is set when it has resolved with false or
\* rejected (part_002:164-173)
DeleteSelectedModelReturned(i) ==
    /\ i \in 1..Len(calls.deleteModel)
    /\ LET modelId == calls.deleteModel[i]
           under == [calls EXCEPT !.deleteModel = RemoveAt(@, i)]
       IN  \/ /\ modelFiles' = modelFiles \ {modelId}
              /\ SetDownloadedModels(
                    [ui EXCEPT !.downloadedModels = Without(@, modelId)], under)
              /\ alert' = "Success"
           \/ /\ ui' = [ui EXCEPT !.error = "Error deleting model. Please try again."]
              /\ calls' = under
              /\ UNCHANGED <<modelFiles, alert>>
    /\ MultiOnly

\* downloadSelectedModel (part_002:126-152) until its await: it returns at
\* once while isDownloading, else it sets isDownloading and awaits
\* downloadModel(selectedModelId). item is the model whose Download button
\* was pressed.
downloadSelectedModel(item) ==
    /\ ~ui.isDownloading
    /\ Len(ui.downloadedModels) < MaxListed
    /\ ui' = [ui EXCEPT !.isDownloading = TRUE, !.error = "null"]
    /\ calls' = [calls EXCEPT !.downloadModel =
                    [modelId |-> ui.selectedModelId, item |-> item]]
    /\ UNCHANGED <<modelFiles, alert>>
    /\ MultiOnly

\* the Download Model button (part_002:446-455): shown while no model is
\* downloaded, disabled while isDownloading; it is the button of the
\* selected model
DownloadPress ==
    /\ Len(ui.downloadedModels) = 0
    /\ downloadSelectedModel(ui.selectedModelId)

\* the Download button of an item of the selector (part_002:359-367), shown
\* for a model that is not downloaded
ModelItemDownloadPress(item) ==
    /\ item \notin Elements(ui.downloadedModels)
    /\ downloadSelectedModel(item)

\* downloadSelectedModel after downloadModel has resolved (part_002:138-151):
\* with true, the file being on the device, and the model id is appended to
\* downloadedModels; or with false, or it has rejected
DownloadSelectedModelReturned ==
    /\ calls.downloadModel # NoCall
    /\ LET modelId == calls.downloadModel.modelId
           under == [calls EXCEPT !.downloadModel = NoCall]
       IN  \/ /\ modelFiles' = modelFiles \cup {modelId}
              /\ SetDownloadedModels(
                    [ui EXCEPT !.downloadedModels = Append(@, modelId),
                               !.isDownloading = FALSE],
                    under)
              /\ alert' = "Success"
           \/ /\ ui' = [ui EXCEPT !.isDownloading = FALSE,
                                  !.error = "Failed to download model"]
              /\ calls' = under
              /\ UNCHANGED <<modelFiles, alert>>
    /\ MultiOnly

\* the component on a device that holds any of the model files
InitMulti ==
    /\ InstInit /\ EnvReady /\ LoadInit /\ GenInit /\ FsInit
    /\ TokInit({<<>>}) /\ WavInit({<<>>}, {SAMPLE_RATE})
    /\ lastDownload = NoDownload
    /\ downloadedVoices = {}
    /\ ui = UiInit
    /\ handlers = HandlersInit
    /\ alert = "none"
    /\ modelFiles \in SUBSET ModelIds
    /\ calls = CallsInit
NextMulti ==
    \/ CheckDownloadedModels
    \/ InitializePress
    \/ \E item \in ModelIds : ModelItemPress(item)
    \/ \E i \in 1..MaxLoads : MultiInitializeModelReturned(i)
    \/ \E modelId \in ModelIds : DeleteSelectedModelAlert(modelId)
    \/ \E modelId \in ModelIds : DeleteSelectedModelStart(modelId)
    \/ \E i \in 1..MaxDeletes : DeleteSelectedModelReturned(i)
    \/ DownloadPress
    \/ \E item \in ModelIds : ModelItemDownloadPress(item)
    \/ DownloadSelectedModelReturned
SpecMulti == InitMulti /\ [][NextMulti]_vars

\* the speed buttons of both versions of the component
NextSpeed ==
    \/ SpeedDecrease
    \/ SpeedReset
    \/ SpeedIncrease
    \/ SpeedSelectorDecrease
    \/ SpeedSelectorIncrease
SpecSpeed == Init /\ [][NextSpeed]_vars

----------------------------------------------------------------------------
\* Reading a WAV buffer back (DataView getUint32 / getUint16 / getInt16,
\* little-endian), used to state the claims.

ReadUint16LE(buf, off) == buf[off + 1] + 256 * buf[off + 2]
ReadUint32LE(buf, off) ==
    buf[off + 1] + 256 * buf[off + 2] + 65536 * buf[off + 3] + 16777216 * buf[off + 4]
ReadInt16LE(buf, off) ==
    LET u == ReadUint16LE(buf, off) IN IF u >= 32768 THEN u - 65536 ELSE u

\* the PCM values stored after the header of a buffer holding n samples
StoredPcm(buf, n) == [i \in 1..n |-> ReadInt16LE(buf, 44 + 2 * (i - 1))]

\* v = clamp(floor(x), -32768, 32767) for the real x = x2 / 2, stated by bounds
IsClampFloor(x2, v) ==
    \/ v = 32767 /\ x2 >= 2 * 32767
    \/ v = -32768 /\ x2 < 2 * (-32767)
    \/ v > -32768 /\ v < 32767 /\ 2 * v <= x2 /\ x2 < 2 * v + 2

\* C1: every stored PCM value lies in [-32768, 32767] and is
\* clamp(floor(s * 32767), -32768, 32767) of its sample s; 2.0 gives 32767,
\* -2.0 gives -32768 and 0.0 gives 0. (Infinities clamp to the bounds; a NaN
\* sample is stored as 0.)
C1_PcmClampFloor ==
    wavPc = "done" =>
        \A i \in 1..Len(floatArray) :
            LET f == floatArray[i]
                v == StoredPcm(wavBuffer, Len(floatArray))[i]
            IN  /\ v \in -32768..32767
                /\ f.kind = "num" => IsClampFloor(f.twice * 32767, v)
                /\ f.kind = "posinf" => v = 32767
                /\ f.kind = "neginf" => v = -32768
                /\ f = Num(4) => v = 32767
                /\ f = Num(-4) => v = -32768
                /\ f = Num(0) => v = 0

C1_Witness ==
    /\ wavPc = "done"
    /\ floatArray = <<Num(4), Num(-4), Num(0)>>
    /\ StoredPcm(wavBuffer, 3) = <<32767, -32768, 0>>

\* C2: the first 44 bytes are the canonical little-endian PCM header, for
\* every sample count n (0 included) and sample rate r.
C2_Header ==
    wavPc = "done" =>
        LET n == Len(floatArray)
            b == wavBuffer
        IN  /\ Len(b) >= 44
            /\ SubSeq(b, 1, 4) = <<82, 73, 70, 70>>
            /\ ReadUint32LE(b, 4) = 36 + 2 * n
            /\ SubSeq(b, 9, 12) = <<87, 65, 86, 69>>
            /\ SubSeq(b, 13, 16) = <<102, 109, 116, 32>>
            /\ ReadUint32LE(b, 16) = 16
            /\ ReadUint16LE(b, 20) = 1
            /\ ReadUint16LE(b, 22) = 1
            /\ ReadUint32LE(b, 24) = sampleRate
            /\ ReadUint32LE(b, 28) = 2 * sampleRate
            /\ ReadUint16LE(b, 32) = 2
            /\ ReadUint16LE(b, 34) = 16
            /\ SubSeq(b, 37, 40) = <<100, 97, 116, 97>>
            /\ ReadUint32LE(b, 40) = 2 * n
            /\ n = 0 => ReadUint32LE(b, 4) = 36 /\ ReadUint32LE(b, 40) = 0

C2_Witness ==
    /\ wavPc = "done"
    /\ floatArray = <<>>
    /\ sampleRate = 24000
    /\ Len(wavBuffer) = 44

\* the PCM value of a sample, as the specification words it
ClampFloorPcm(f) ==
    CASE f.kind = "num" ->
           LET fl == (f.twice * 32767) \div 2
           IN  IF fl > 32767 THEN 32767 ELSE IF fl < -32768 THEN -32768 ELSE fl
      [] f.kind = "posinf" -> 32767
      [] f.kind = "neginf" -> -32768
      [] OTHER -> 0

\* C3: the buffer has exactly 44 + 2n bytes, the i-th sample's PCM value is
\* the little-endian signed 16-bit value at offset 44 + 2i (input order,
\* nothing after), and the header decodes to sampleRate r, 16 bits, 1
\* channel and dataLength 2n.
C3_Layout ==
    wavPc = "done" =>
        LET n == Len(floatArray)
        IN  /\ Len(wavBuffer) = 44 + 2 * n
            /\ \A i \in 0..(n - 1) :
                   ReadInt16LE(wavBuffer, 44 + 2 * i) = ClampFloorPcm(floatArray[i + 1])
            /\ <<ReadUint32LE(wavBuffer, 24), ReadUint16LE(wavBuffer, 34),
                  ReadUint16LE(wavBuffer, 22), ReadUint32LE(wavBuffer, 40)>>
               = <<sampleRate, 16, 1, 2 * n>>

C3_Witness ==
    /\ wavPc = "done"
    /\ floatArray = <<Num(-1), Num(2), Num(1)>>
    /\ Len(wavBuffer) = 50
    /\ StoredPcm(wavBuffer, 3) = <<-16384, 32767, 16383>>

\* C4 as stated: [0.5, -1.0, 1.0, 0.0] at 24000 Hz is stored as the PCM
\* values [16384, -32768, 32767, 0].
C4_Original ==
    (wavPc = "done" /\ floatArray = ScenarioWaveform /\ sampleRate = 24000) =>
        StoredPcm(wavBuffer, 4) = <<16384, -32768, 32767, 0>>

\* C4 as amended: [0.5, -1.0, 1.0, 0.0] at 24000 Hz is stored, after the
\* 44-byte header, as the PCM values [16383, -32767, 32767, 0], little-endian
\* (floor(0.5 * 32767) = 16383 and floor(-1.0 * 32767) = -32767).
C4_ScenarioPcm ==
    (wavPc = "done" /\ floatArray = ScenarioWaveform /\ sampleRate = 24000) =>
        /\ StoredPcm(wavBuffer, 4) = <<16383, -32767, 32767, 0>>
        /\ SubSeq(wavBuffer, 45, 52) = <<255, 63, 1, 128, 255, 127, 0, 0>>

C4_Witness ==
    /\ wavPc = "done"
    /\ floatArray = ScenarioWaveform
    /\ sampleRate = 24000
    /\ Len(wavBuffer) = 52

MappedChars(text) == SelectSeq(toLowerCase(text), LAMBDA c : c \in DOMAIN VOCAB)

\* C6: for every text the tokens are at least 2 long and begin and end with
\* the sentinel 0; the empty text gives exactly [0, 0].
C6_Sentinels ==
    "text" \in tokPc =>
        /\ Len(tokTokens) >= 2
        /\ tokTokens[1] = 0
        /\ tokTokens[Len(tokTokens)] = 0
        /\ tokText = <<>> => tokTokens = <<0, 0>>

C6_Witness ==
    /\ "text" \in tokPc
    /\ tokText = <<>>
    /\ tokTokens = <<0, 0>>

C8_CaseInsensitive ==
    /\ tokPc = {"text", "lower"} => tokTokens = tokLowerTokens
    /\ ("text" \in tokPc /\ tokText = <<"Z", "h", "H">>) =>
           tokTokens = <<0, VOCAB["z"], VOCAB["h"], VOCAB["h"], 0>>

C8_Witness ==
    /\ tokPc = {"text", "lower"}
    /\ tokText = <<"Z", "h", "H">>
    /\ tokTokens = <<0, 58, 40, 40, 0>>
    /\ tokLowerTokens = tokTokens

\* C9 as stated: the input_ids tensor handed to session.run has at most 511
\* elements (at most 509 tokens between the two sentinels).
C9_Original ==
    \A c \in Calls :
        gen[c].pc = "run" =>
            /\ Len(gen[c].inputs[1].input_ids.data) <= 511
            /\ gen[c].inputs[1].input_ids.dims[2] <= 511

\* C10: the token count used to index the style blob is
\* min(max(len(tokens) - 2, 0), 509), so it lies in 0..509, and the slice
\* asked of the blob is [256 * numTokens, 256 * numTokens + 256).
C10_StyleSlice ==
    \A c \in Calls :
        LET Clamped(n) == IF n > 509 THEN 509 ELSE IF n < 0 THEN 0 ELSE n
        IN  /\ gen[c].pc = "getVoiceData" =>
                  /\ gen[c].numTokens \in 0..509
                  /\ gen[c].numTokens = Clamped(Len(gen[c].tokens) - 2)
            /\ gen[c].pc = "run" =>
                  /\ gen[c].numTokens \in 0..509
                  /\ gen[c].numTokens
                        = Clamped(Len(gen[c].inputs[1].input_ids.data) - 2)
                  /\ gen[c].sliceArgs
                        = <<256 * gen[c].numTokens, 256 * gen[c].numTokens + 256>>
                  /\ gen[c].inputs[1].style.data = gen[c].sliceArgs

C10_Witness ==
    \E c \in Calls :
        /\ gen[c].pc = "run"
        /\ Len(gen[c].inputs[1].input_ids.data) = 512
        /\ gen[c].numTokens = 509
        /\ gen[c].sliceArgs = <<130304, 130560>>

C12_FailFast ==
    /\ [][(requests' # requests /\ ~isModelLoaded) =>
             /\ \A c \in Calls :
                   gen'[c] # gen[c] =>
                      /\ gen'[c].pc = "thrown"
                      /\ gen'[c].tokens = <<>> /\ gen'[c].inputs = <<>>
             /\ UNCHANGED <<fsVars, instVars, appVars>>]_vars
    /\ [](\A c \in Calls :
             gen[c].pc \notin {"idle", "thrown", "returned"} => isModelLoaded)

C12_Witness ==
    /\ ~isModelLoaded
    /\ requests = 1
    /\ gen[1].pc = "thrown"
    /\ gen[1].result = "Model not loaded"
    /\ \A v \in Voices : fetches[v] = 0 /\ voiceFiles[v] = "absent"
    /\ tempFiles = <<>> /\ sounds = <<>>

\* C13 as stated: a call goes on to write a WAV file only for a waveform of
\* at least one sample, so no temporary file and no sound holds a WAV of
\* zero samples.
C13_Original ==
    /\ \A c \in Calls :
          gen[c].pc = "write" =>
             Len(Base64Decode(gen[c].base64Data)) > headerLength
    /\ \A p \in DOMAIN tempFiles : Len(tempFiles[p]) # headerLength

\* C14 as stated: a call goes on to getVoiceData and to session.run only
\* when its downloadVoice has returned true.
C14_Original ==
    \A c \in Calls :
        gen[c].pc \in {"getVoiceData", "run"} => gen[c].downloaded

\* a file that holds a whole WAV: a header whose data length is the number
\* of bytes that follow it
CompleteWav(bytes) ==
    /\ Len(bytes) >= headerLength
    /\ ReadUint32LE(bytes, 40) = Len(bytes) - headerLength

\* C15: a call whose write did not put the whole WAV into its temporary file
\* throws and creates no sound, and a call that waits on createAsync has a
\* whole WAV at its path.
C15_WriteFailureAborts ==
    /\ [][\A c \in Calls :
             (/\ gen[c].pc = "write"
              /\ gen'[c].pc # "write"
              /\ \/ gen[c].tempFilePath \notin DOMAIN tempFiles'
                 \/ tempFiles'[gen[c].tempFilePath]
                       # Base64Decode(gen[c].base64Data))
                => gen'[c].pc = "thrown" /\ sounds' = sounds]_vars
    /\ [](\A c \in Calls :
             gen[c].pc = "createSound" =>
                /\ gen[c].tempFilePath \in DOMAIN tempFiles
                /\ CompleteWav(tempFiles[gen[c].tempFilePath]))

C15_Witness ==
    /\ gen[1].pc = "thrown"
    /\ gen[1].result = "write failed"
    /\ sounds = <<>>
    /\ \E p \in DOMAIN tempFiles :
          Len(tempFiles[p]) > 0 /\ ~CompleteWav(tempFiles[p])

\* C16 as stated: two requests that have their temporary paths have
\* different ones, and no two sounds were created on the same path.
C16_Original ==
    /\ \A c, d \in Calls :
          (/\ c # d
           /\ gen[c].pc \in {"write", "createSound"}
           /\ gen[d].pc \in {"write", "createSound"})
             => gen[c].tempFilePath # gen[d].tempFilePath
    /\ \A i, j \in 1..Len(sounds) : i # j => sounds[i].uri # sounds[j].uri

\* C17 as stated: at most one call waits on session.run at any time.
C17_Original ==
    Cardinality({c \in Calls : gen[c].pc = "run"}) <= 1

\* C18: while the file of a voice is there, no step starts a download for
\* it or changes the file, whether downloadVoice is called by the App or by
\* generateAudio; and a downloadVoice call of the App that got through its
\* file system calls then returns true without a fetch.
C18_NoRefetch ==
    [][\A v \in Voices :
          voiceFiles[v] # "absent" =>
             /\ fetches'[v] = fetches[v]
             /\ voiceFiles'[v] = voiceFiles[v]
             /\ (/\ lastDownload' # lastDownload
                 /\ lastDownload'.voiceId = v
                 /\ lastDownload'.outcome # "threw")
                   => /\ DownloadResult(lastDownload'.outcome)
                      /\ ~Fetched(lastDownload'.outcome)]_vars

C18_Witness ==
    /\ voiceFiles[selectedVoice] = "voice"
    /\ fetches[selectedVoice] = 1
    /\ lastDownload = [voiceId |-> selectedVoice, outcome |-> "exists"]
    /\ selectedVoice \in downloadedVoices
    /\ gen[1].pc = "getVoiceData"
    /\ gen[1].downloaded

\* C19 as stated: while the file of a voice holds what a failed download
\* left, the voice is not in the App's downloadedVoices and the last
\* downloadVoice call for it has not returned true.
C19_Original ==
    \A v \in Voices :
        voiceFiles[v] = "errorBody" =>
           /\ v \notin downloadedVoices
           /\ ~(lastDownload.voiceId = v /\ DownloadResult(lastDownload.outcome))

C21_Original ==
    isModelLoaded => session # NoSession

\* C23 as stated: the speed tensor of a call that waits on session.run holds
\* a value in [0.5, 2.0].
C23_Original ==
    \A c \in Calls :
        gen[c].pc = "run" =>
            LET value == gen[c].inputs[1].speed.data[1]
            IN  value.kind = "num" /\ value.twice >= 1 /\ value.twice <= 4

\* C22: after any sequence of presses of the speed buttons, starting from
\* 1.0, the speed the component holds (and passes to the engine) lies in
\* [0.5, 2.0].
C22_SpeedClamped ==
    ui.speed >= MinSpeed /\ ui.speed <= MaxSpeed

\* presses of - have brought the speed down to the lower limit
C22_Witness ==
    ui.speed = MinSpeed

\* initializeModel is called by the effect on [isModelDownloaded] alone, and
\* the effect runs when a handler sets isModelDownloaded: a handler that can
\* set it is under way or can be started
InitializeReachable ==
    \/ handlers.checkIfModelExists # "idle"
    \/ handlers.downloadModel # "idle"
    \/ ENABLED DownloadModelStart

\* C24 as stated: in every state in which the model file is present and
\* loadModel has returned false, the component still allows another
\* initializeModel call.
C24_Original ==
    (modelFileExists /\ loadPc = "idle" /\ loadResult = "false"
        /\ handlers.initializeModel = "idle")
    => InitializeReachable

\* the alerts of generateSpeech (App.tsx:192 and 197)
GenerateSpeechAlerts == {"Model not initialized", "Voice not downloaded"}

\* C25: generateSpeech calls the engine only when isModelInitialized holds
\* and the selected voice is in downloadedVoices; otherwise it shows an
\* alert and leaves isGeneratingAudio, error and sound (all of the component
\* state, the engine's calls and the sounds) as they are.
C25_GuardedGenerate ==
    [][/\ requests' # requests => GenerateSpeechGuards
       /\ (handlers.generateSpeech = "idle" /\ handlers'.generateSpeech # "idle")
             => GenerateSpeechGuards
       /\ (alert' # alert /\ alert' \in GenerateSpeechAlerts)
             => /\ ~GenerateSpeechGuards
                /\ UNCHANGED <<ui, handlers, genVars, sounds>>]_vars

\* the alert was shown for a voice that is not downloaded, with the model
\* initialized, and the engine has not been called
C25_Witness ==
    /\ alert = "Voice not downloaded"
    /\ ui.isModelInitialized
    /\ selectedVoice \notin downloadedVoices
    /\ handlers.generateSpeech = "idle"
    /\ ~ui.isGeneratingAudio
    /\ requests = 0

\* the Audio.Sound objects that are loaded
LoadedSounds == {i \in 1..Len(sounds) : sounds[i].loaded}

\* C27: in the component of App.tsx at most one generated sound is loaded at
\* any time, and a loaded sound is the one the sound state refers to or the
\* one generateAudio has just returned to the waiting generateSpeech.
C27_OneLoadedSound ==
    /\ Cardinality(LoadedSounds) <= 1
    /\ \A i \in LoadedSounds :
          \/ i = ui.sound
          \/ /\ i = Len(sounds)
             /\ handlers.generateSpeech = "generateAudio"
             /\ gen[1].pc = "returned"

\* a second Generate press has unloaded the first sound and the second
\* sound is the sound state
C27_Witness ==
    /\ Len(sounds) = 2
    /\ ~sounds[1].loaded
    /\ sounds[2].loaded
    /\ ui.sound = 2
    /\ handlers.generateSpeech = "idle"

\* C26: a handler that has set its in-progress flag clears it: whenever
\* generateSpeech, downloadModel, downloadVoice or initializeModel is under
\* way with its flag set, the handler eventually has returned with the flag
\* false, whatever the awaited operations did.
C26_FlagsCleared ==
    /\ (handlers.generateSpeech # "idle" /\ ui.isGeneratingAudio)
          ~> (handlers.generateSpeech = "idle" /\ ~ui.isGeneratingAudio)
    /\ (handlers.downloadModel # "idle" /\ ui.isDownloading)
          ~> (handlers.downloadModel = "idle" /\ ~ui.isDownloading)
    /\ (handlers.downloadVoice # "idle" /\ ui.isVoiceDownloading)
          ~> (handlers.downloadVoice = "idle" /\ ~ui.isVoiceDownloading)
    /\ (handlers.initializeModel # "idle" /\ ui.isModelLoading)
          ~> (handlers.initializeModel = "idle" /\ ~ui.isModelLoading)

\* a model download that failed has cleared isDownloading
C26_Witness ==
    /\ ui.error = "Error downloading model. Please try again."
    /\ handlers.downloadModel = "idle"
    /\ ~ui.isDownloading
    /\ ~ui.isModelDownloaded

\* C28 as stated: in the multi-model component currentModelId, when not
\* null, is in downloadedModels.
C28_Original ==
    ui.currentModelId # "null" =>
        ui.currentModelId \in Elements(ui.downloadedModels)

\* C29 as stated: in the multi-model component at most one
\* KokoroOnnx.loadModel call is under way at any time.
C29_Original ==
    Len(calls.loadModel) <= 1

\* C30 as stated: in the multi-model component downloadedModels never lists
\* a model id twice, and the download started by the Download button of a
\* model item is the download of that item.
C30_Original ==
    /\ \A i, j \in 1..Len(ui.downloadedModels) :
          ui.downloadedModels[i] = ui.downloadedModels[j] => i = j
    /\ calls.downloadModel # NoCall =>
          calls.downloadModel.modelId = calls.downloadModel.item

====
